---------------------------- MODULE Spec2Model ----------------------------
(***************************************************************************)
(* The commit-message linting configuration of .commitlint.config.mjs     *)
(* (the current generation of the file, lines 203-858): the ignore         *)
(* predicates, the lax header pattern, the four custom rules and the       *)
(* configured rule table, as commitlint's lint() drives them for one       *)
(* commit of the pull request.                                             *)
(*                                                                         *)
(* A JavaScript string is a sequence of one-character strings.  A field    *)
(* the parser leaves null is the empty sequence: the parser stores         *)
(* `match[i] || null`, and every rule reads `parsed.x || ''` or tests the  *)
(* field with a regular expression, so null and '' are never told apart.   *)
(*                                                                         *)
(* The functions the configuration imports (the parser, ensure, message,   *)
(* coreRules) are modelled by what they do on the characters of the model: *)
(* ASCII letters and digits, space, tab, line feed and punctuation         *)
(* without quote characters.  Left out, as nothing here reaches them: the  *)
(* parser's split of the body into body and footer, the quoted passages    *)
(* ensure.case drops before it compares, and commitlint's built-in ignore  *)
(* patterns, which only add to the configured ones.                        *)
(***************************************************************************)
EXTENDS Naturals, Sequences, FiniteSets, TLC

VARIABLES
    message,    \* the raw commit message handed to lint()
    pc,         \* "ready" -> "parsed" -> "done", or "ready" -> "done" when ignored
    parsed,     \* the parser's output for the message
    ignored,    \* TRUE when an ignore predicate exempted the message
    report      \* rule name -> [valid, message] for every rule that ran

vars == <<message, pc, parsed, ignored, report>>

----------------------------------------------------------------------------
(* Characters and the JavaScript string primitives the configuration uses. *)

LowerLetters ==
    <<"a","b","c","d","e","f","g","h","i","j","k","l","m",
      "n","o","p","q","r","s","t","u","v","w","x","y","z">>

UpperLetters ==
    <<"A","B","C","D","E","F","G","H","I","J","K","L","M",
      "N","O","P","Q","R","S","T","U","V","W","X","Y","Z">>

LowerSet == {LowerLetters[i] : i \in DOMAIN LowerLetters}
UpperSet == {UpperLetters[i] : i \in DOMAIN UpperLetters}
DigitSet == {"0","1","2","3","4","5","6","7","8","9"}

\* \s of a regular expression and the characters trim() strips, among the
\* characters of the model: space, tab and line feed.
Whitespace == {" ", "\t", "\n"}

\* [\w._-] of headerPattern, which is also [\w.-] of the bump pattern
\* (the underscore is a \w character).
WordChars == LowerSet \cup UpperSet \cup DigitSet \cup {"_"}
ComponentChars == WordChars \cup {".", "-"}

LowerOf == [c \in UpperSet |-> LowerLetters[CHOOSE i \in DOMAIN UpperLetters : UpperLetters[i] = c]]
UpperOf == [c \in LowerSet |-> UpperLetters[CHOOSE i \in DOMAIN LowerLetters : LowerLetters[i] = c]]

\* String.prototype.toLowerCase / toUpperCase
toLowerCase(s) == [i \in DOMAIN s |-> IF s[i] \in UpperSet THEN LowerOf[s[i]] ELSE s[i]]
toUpperCase(s) == [i \in DOMAIN s |-> IF s[i] \in LowerSet THEN UpperOf[s[i]] ELSE s[i]]

\* String.prototype.trim
trim(s) ==
    LET keep == {i \in DOMAIN s : s[i] \notin Whitespace}
    IN  IF keep = {} THEN <<>>
        ELSE SubSeq(s, CHOOSE i \in keep : \A j \in keep : i <= j,
                       CHOOSE i \in keep : \A j \in keep : j <= i)

\* s.split(sep)[0] for a one-character separator
splitFirst(s, sep) ==
    LET at == {i \in DOMAIN s : s[i] = sep}
    IN  IF at = {} THEN s
        ELSE SubSeq(s, 1, (CHOOSE i \in at : \A j \in at : i <= j) - 1)

\* String.prototype.includes
includes(s, part) ==
    \E i \in 0..Len(s) : i + Len(part) <= Len(s) /\ SubSeq(s, i + 1, i + Len(part)) = part

\* The lines of a text, s.split('\n')
RECURSIVE splitLines(_)
splitLines(s) ==
    LET at == {i \in DOMAIN s : s[i] = "\n"}
    IN  IF at = {} THEN <<s>>
        ELSE LET i == CHOOSE i \in at : \A j \in at : i <= j
             IN  <<SubSeq(s, 1, i - 1)>> \o splitLines(SubSeq(s, i + 1, Len(s)))

\* All strings over an alphabet of at most n characters
Strings(alphabet, n) == UNION {[1..k -> alphabet] : k \in 0..n}

----------------------------------------------------------------------------
(* The verb allowlists.                                                    *)

ALLOWED_IMPERATIVE_VERBS ==
    { <<"a","c","c","o","m","m","o","d","a","t","e">>
    , <<"a","r","c","h","i","v","e">>
    , <<"a","u","t","o","-","c","r","e","a","t","e">>
    , <<"b","a","c","k","p","o","r","t">>
    , <<"b","a","c","k","s","t","o","p">>
    , <<"b","a","c","k","t","i","c","k">>
    , <<"b","o","x">>
    , <<"c","a","n","o","n","i","c","a","l","i","z","e">>
    , <<"c","a","r","g","o">>
    , <<"c","h","e","r","r","y","-","p","i","c","k">>
    , <<"c","h","i","l","l">>
    , <<"c","h","m","o","d">>
    , <<"c","h","o","o","s","e">>
    , <<"c","o","m","p","r","e","s","s">>
    , <<"c","o","n","d","i","t","i","o","n","a","l","i","z","e">>
    , <<"c","o","n","f","i","n","e">>
    , <<"c","o","n","s","t","r","a","i","n">>
    , <<"c","o","n","s","u","l","t">>
    , <<"d","e","n","y">>
    , <<"d","e","r","i","v","e">>
    , <<"d","e","s","t","r","u","c","t","u","r","e">>
    , <<"d","i","f","f","e","r","e","n","t","i","a","t","e">>
    , <<"d","o","w","n","g","r","a","d","e">>
    , <<"d","o","w","n","l","o","a","d">>
    , <<"d","r","i","v","e">>
    , <<"e","l","a","b","o","r","a","t","e">>
    , <<"e","n","c","o","d","e">>
    , <<"e","x","e","c","u","t","e">>
    , <<"e","x","p","r","e","s","s">>
    , <<"f","l","i","p">>
    , <<"f","o","l","l","o","w">>
    , <<"f","o","r","m","a","t">>
    , <<"g","e","n","e","r","i","c","i","z","e">>
    , <<"g","o">>
    , <<"i","n","j","e","c","t">>
    , <<"i","n","s","t","a","l","l">>
    , <<"i","n","v","e","n","t","o","r","y">>
    , <<"i","s","o","l","a","t","e">>
    , <<"l","a","b","e","l">>
    , <<"l","a","b","e","l">>
    , <<"l","a","u","n","c","h">>
    , <<"m","e","n","t","i","o","n">>
    , <<"m","i","t","i","g","a","t","e">>
    , <<"m","o","d","u","l","a","r","i","z","e">>
    , <<"m","o","u","n","t">>
    , <<"n","o","r","m","a","l","i","z","e">>
    , <<"o","r","d","e","r">>
    , <<"o","r","g","a","n","i","z","e">>
    , <<"o","u","t","p","u","t">>
    , <<"o","v","e","r","h","a","u","l">>
    , <<"p","a","t","c","h">>
    , <<"p","e","r","c","e","n","t","-","e","n","c","o","d","e">>
    , <<"p","e","r","s","i","s","t">>
    , <<"p","e","s","s","i","m","i","z","e">>
    , <<"p","i","n">>
    , <<"p","l","u","m","b">>
    , <<"p","o","i","n","t">>
    , <<"p","o","l","y","f","i","l","l">>
    , <<"p","r","e","p","e","n","d">>
    , <<"p","r","i","v","a","t","i","z","e">>
    , <<"q","u","o","t","e">>
    , <<"r","a","i","s","e">>
    , <<"r","e","-","c","r","e","a","t","e">>
    , <<"r","e","-","e","n","a","b","l","e">>
    , <<"r","e","a","p">>
    , <<"r","e","b","a","s","e">>
    , <<"r","e","c","o","m","m","e","n","d">>
    , <<"r","e","c","o","n","f","i","g","u","r","e">>
    , <<"r","e","d","o">>
    , <<"r","e","f","e","r">>
    , <<"r","e","n","d","e","r">>
    , <<"r","e","n","u","m","b","e","r">>
    , <<"r","e","p","e","a","t">>
    , <<"r","e","r","u","n">>
    , <<"r","e","s","t","a","r","t">>
    , <<"r","e","t","a","i","n">>
    , <<"s","c","o","p","e">>
    , <<"s","e","c","u","r","e">>
    , <<"s","i","g","n">>
    , <<"s","o","l","i","c","i","t">>
    , <<"s","p","e","c","i","a","l","-","c","a","s","e">>
    , <<"s","t","r","e","n","g","t","h","e","n">>
    , <<"s","t","r","i","p","e">>
    , <<"s","u","r","f","a","c","e">>
    , <<"t","e","m","p","l","a","t","i","z","e">>
    , <<"t","i","e">>
    , <<"t","r","a","n","s","l","a","t","e">>
    , <<"t","r","u","n","c","a","t","e">>
    , <<"t","r","u","s","t">>
    , <<"u","n","m","a","s","k">>
    , <<"u","n","p","i","n">>
    , <<"u","n","s","e","t">>
    , <<"u","n","w","r","a","p">>
    , <<"v","e","n","d">>
    , <<"v","e","n","d","o","r">>
    , <<"w","i","d","e","n">>
    }

COMMITLINT_PLUGIN_TENSE_ALLOWLIST ==
    { <<"a","b","o","r","t">>
    , <<"a","b","s","o","r","b">>
    , <<"a","b","s","t","r","a","c","t">>
    , <<"a","c","c","e","p","t">>
    , <<"a","c","c","e","s","s">>
    , <<"a","c","c","o","u","n","t">>
    , <<"a","c","q","u","i","r","e">>
    , <<"a","c","t","i","v","a","t","e">>
    , <<"a","d","a","p","t">>
    , <<"a","d","d">>
    , <<"a","d","d","r","e","s","s">>
    , <<"a","d","j","u","s","t">>
    , <<"a","d","o","p","t">>
    , <<"a","d","v","e","r","t","i","s","e">>
    , <<"a","l","i","g","n">>
    , <<"a","l","l","o","c","a","t","e">>
    , <<"a","l","l","o","w">>
    , <<"a","n","n","o","t","a","t","e">>
    , <<"a","p","p","e","n","d">>
    , <<"a","p","p","l","y">>
    , <<"a","s","s","e","r","t">>
    , <<"a","s","s","i","g","n">>
    , <<"a","s","s","u","m","e">>
    , <<"a","t","t","a","c","h">>
    , <<"a","u","t","o","m","a","t","i","c","a","l","l","y">>
    , <<"a","v","o","i","d">>
    , <<"b","a","i","l">>
    , <<"b","a","l","a","n","c","e">>
    , <<"b","e">>
    , <<"b","e","a","u","t","i","f","y">>
    , <<"b","e","t","t","e","r">>
    , <<"b","i","n","d">>
    , <<"b","l","o","c","k">>
    , <<"b","r","e","a","k">>
    , <<"b","r","i","n","g">>
    , <<"b","u","i","l","d">>
    , <<"b","u","m","p">>
    , <<"c","a","c","h","e">>
    , <<"c","a","l","c","u","l","a","t","e">>
    , <<"c","a","l","l">>
    , <<"c","a","n","c","e","l">>
    , <<"c","a","p","t","u","r","e">>
    , <<"c","a","s","t">>
    , <<"c","a","t","c","h">>
    , <<"c","e","n","t","r","a","l","i","s","e">>
    , <<"c","e","n","t","r","a","l","i","z","e">>
    , <<"c","h","a","n","g","e">>
    , <<"c","h","e","c","k">>
    , <<"c","l","a","r","i","f","y">>
    , <<"c","l","e","a","n">>
    , <<"c","l","e","a","n","u","p">>
    , <<"c","l","e","a","r">>
    , <<"c","l","o","s","e">>
    , <<"c","o","d","e">>
    , <<"c","o","l","l","a","p","s","e">>
    , <<"c","o","l","l","e","c","t">>
    , <<"c","o","m","b","i","n","e">>
    , <<"c","o","m","m","e","n","t">>
    , <<"c","o","m","p","i","l","e">>
    , <<"c","o","m","p","l","e","t","e">>
    , <<"c","o","m","p","u","t","e">>
    , <<"c","o","n","d","i","t","i","o","n","a","l","l","y">>
    , <<"c","o","n","f","i","g","u","r","e">>
    , <<"c","o","n","s","i","d","e","r">>
    , <<"c","o","n","s","i","s","t","e","n","t","l","y">>
    , <<"c","o","n","s","o","l","i","d","a","t","e">>
    , <<"c","o","n","s","t","i","f","y">>
    , <<"c","o","n","t","r","o","l">>
    , <<"c","o","n","v","e","r","t">>
    , <<"c","o","p","y">>
    , <<"c","o","r","r","e","c","t">>
    , <<"c","o","u","n","t">>
    , <<"c","r","e","a","t","e">>
    , <<"d","e","a","l">>
    , <<"d","e","b","u","g">>
    , <<"d","e","c","l","a","r","e">>
    , <<"d","e","c","o","d","e">>
    , <<"d","e","c","o","u","p","l","e">>
    , <<"d","e","c","r","e","a","s","e">>
    , <<"d","e","d","u","p","l","i","c","a","t","e">>
    , <<"d","e","f","a","u","l","t">>
    , <<"d","e","f","e","r">>
    , <<"d","e","f","i","n","e">>
    , <<"d","e","l","a","y">>
    , <<"d","e","l","e","t","e">>
    , <<"d","e","m","o","t","e">>
    , <<"d","e","p","e","n","d">>
    , <<"d","e","p","r","e","c","a","t","e">>
    , <<"d","e","s","c","r","i","b","e">>
    , <<"d","e","s","t","r","o","y">>
    , <<"d","e","t","e","c","t">>
    , <<"d","e","t","e","r","m","i","n","e">>
    , <<"d","i","s","a","b","l","e">>
    , <<"d","i","s","a","l","l","o","w">>
    , <<"d","i","s","c","a","r","d">>
    , <<"d","i","s","p","l","a","y">>
    , <<"d","i","s","t","i","n","g","u","i","s","h">>
    , <<"d","o">>
    , <<"d","o","c","u","m","e","n","t">>
    , <<"d","o","n","'","t">>
    , <<"d","o","u","b","l","e">>
    , <<"d","r","o","p">>
    , <<"d","u","m","p">>
    , <<"e","l","i","m","i","n","a","t","e">>
    , <<"e","m","b","e","d">>
    , <<"e","m","i","t">>
    , <<"e","m","u","l","a","t","e">>
    , <<"e","n","a","b","l","e">>
    , <<"e","n","c","a","p","s","u","l","a","t","e">>
    , <<"e","n","f","o","r","c","e">>
    , <<"e","n","h","a","n","c","e">>
    , <<"e","n","s","u","r","e">>
    , <<"e","r","r","o","r">>
    , <<"e","x","c","l","u","d","e">>
    , <<"e","x","i","t">>
    , <<"e","x","p","a","n","d">>
    , <<"e","x","p","l","a","i","n">>
    , <<"e","x","p","o","r","t">>
    , <<"e","x","p","o","s","e">>
    , <<"e","x","t","e","n","d">>
    , <<"e","x","t","r","a","c","t">>
    , <<"f","a","c","t","o","r">>
    , <<"f","a","c","t","o","r","i","z","e">>
    , <<"f","a","i","l">>
    , <<"f","a","l","l","b","a","c","k">>
    , <<"f","e","t","c","h">>
    , <<"f","i","l","l">>
    , <<"f","i","l","t","e","r">>
    , <<"f","i","n","d">>
    , <<"f","i","n","i","s","h">>
    , <<"f","i","x">>
    , <<"f","i","x","u","p">>
    , <<"f","l","u","s","h">>
    , <<"f","o","l","d">>
    , <<"f","o","r","b","i","d">>
    , <<"f","o","r","c","e">>
    , <<"f","r","e","e">>
    , <<"f","u","l","l","y">>
    , <<"f","u","r","t","h","e","r">>
    , <<"g","e","n","e","r","a","l","i","z","e">>
    , <<"g","e","n","e","r","a","t","e">>
    , <<"g","e","t">>
    , <<"g","i","v","e">>
    , <<"g","r","a","b">>
    , <<"g","r","o","u","p">>
    , <<"g","u","a","r","d">>
    , <<"h","a","n","d","l","e">>
    , <<"h","a","v","e">>
    , <<"h","i","d","e">>
    , <<"h","o","l","d">>
    , <<"h","o","n","o","r">>
    , <<"h","o","n","o","u","r">>
    , <<"h","o","o","k">>
    , <<"i","d","e","n","t","i","f","y">>
    , <<"i","g","n","o","r","e">>
    , <<"i","m","p","l","e","m","e","n","t">>
    , <<"i","m","p","r","o","v","e">>
    , <<"i","n","c","l","u","d","e">>
    , <<"i","n","c","r","e","a","s","e">>
    , <<"i","n","c","r","e","m","e","n","t">>
    , <<"i","n","d","i","c","a","t","e">>
    , <<"i","n","i","t">>
    , <<"i","n","i","t","i","a","l">>
    , <<"i","n","i","t","i","a","l","i","s","e">>
    , <<"i","n","i","t","i","a","l","i","z","e">>
    , <<"i","n","l","i","n","e">>
    , <<"i","n","s","e","r","t">>
    , <<"i","n","t","e","g","r","a","t","e">>
    , <<"i","n","t","r","o","d","u","c","e">>
    , <<"i","n","v","a","l","i","d","a","t","e">>
    , <<"i","n","v","e","r","t">>
    , <<"i","n","v","o","k","e">>
    , <<"i","s","s","u","e">>
    , <<"k","e","e","p">>
    , <<"k","i","l","l">>
    , <<"l","e","a","v","e">>
    , <<"l","e","t">>
    , <<"l","i","f","t">>
    , <<"l","i","m","i","t">>
    , <<"l","i","n","k">>
    , <<"l","o","a","d">>
    , <<"l","o","c","k">>
    , <<"l","o","g">>
    , <<"l","o","o","k">>
    , <<"l","o","w","e","r">>
    , <<"m","a","i","n","t","a","i","n">>
    , <<"m","a","k","e">>
    , <<"m","a","n","a","g","e">>
    , <<"m","a","p">>
    , <<"m","a","r","k">>
    , <<"m","a","s","k">>
    , <<"m","a","t","c","h">>
    , <<"m","e","r","g","e">>
    , <<"m","i","g","r","a","t","e">>
    , <<"m","o","d","i","f","y">>
    , <<"m","o","v","e">>
    , <<"n","a","m","e">>
    , <<"n","o","t","i","f","y">>
    , <<"n","u","k","e">>
    , <<"n","u","l","l">>
    , <<"o","m","i","t">>
    , <<"o","n">>
    , <<"o","p","e","n">>
    , <<"o","p","t","i","m","i","s","e">>
    , <<"o","p","t","i","m","i","z","e">>
    , <<"o","v","e","r","r","i","d","e">>
    , <<"p","a","r","s","e">>
    , <<"p","a","s","s">>
    , <<"p","e","r","f","o","r","m">>
    , <<"p","e","r","m","i","t">>
    , <<"p","l","a","c","e">>
    , <<"p","l","a","t","f","o","r","m">>
    , <<"p","l","u","g">>
    , <<"p","o","l","l">>
    , <<"p","o","p","u","l","a","t","e">>
    , <<"p","o","r","t">>
    , <<"p","o","w","e","r">>
    , <<"p","r","e","f","e","r">>
    , <<"p","r","e","f","i","x">>
    , <<"p","r","e","p","a","r","e">>
    , <<"p","r","e","s","e","r","v","e">>
    , <<"p","r","e","v","e","n","t">>
    , <<"p","r","i","n","t">>
    , <<"p","r","o","b","e">>
    , <<"p","r","o","c","e","s","s">>
    , <<"p","r","o","g","r","a","m">>
    , <<"p","r","o","p","a","g","a","t","e">>
    , <<"p","r","o","t","e","c","t">>
    , <<"p","r","o","v","i","d","e">>
    , <<"p","u","l","l">>
    , <<"p","u","r","g","e">>
    , <<"p","u","s","h">>
    , <<"p","u","t">>
    , <<"q","u","e","r","y">>
    , <<"q","u","e","u","e">>
    , <<"q","u","i","e","t">>
    , <<"r","e","a","d">>
    , <<"r","e","a","r","r","a","n","g","e">>
    , <<"r","e","c","o","r","d">>
    , <<"r","e","d","u","c","e">>
    , <<"r","e","f","a","c","t","o","r">>
    , <<"r","e","f","e","r","e","n","c","e">>
    , <<"r","e","f","i","n","e">>
    , <<"r","e","f","o","r","m","a","t">>
    , <<"r","e","f","r","e","s","h">>
    , <<"r","e","f","u","s","e">>
    , <<"r","e","g","i","s","t","e","r">>
    , <<"r","e","i","m","p","l","e","m","e","n","t">>
    , <<"r","e","j","e","c","t">>
    , <<"r","e","l","a","x">>
    , <<"r","e","l","e","a","s","e">>
    , <<"r","e","l","i","c","e","n","s","e">>
    , <<"r","e","l","o","c","a","t","e">>
    , <<"r","e","l","y">>
    , <<"r","e","m","o","v","e">>
    , <<"r","e","n","a","m","e">>
    , <<"r","e","o","r","d","e","r">>
    , <<"r","e","o","r","g","a","n","i","s","e">>
    , <<"r","e","o","r","g","a","n","i","z","e">>
    , <<"r","e","p","a","i","r">>
    , <<"r","e","p","l","a","c","e">>
    , <<"r","e","p","o","r","t">>
    , <<"r","e","q","u","e","s","t">>
    , <<"r","e","q","u","i","r","e">>
    , <<"r","e","s","e","r","v","e">>
    , <<"r","e","s","e","t">>
    , <<"r","e","s","o","l","v","e">>
    , <<"r","e","s","p","e","c","t">>
    , <<"r","e","s","t","o","r","e">>
    , <<"r","e","s","t","r","i","c","t">>
    , <<"r","e","s","t","r","u","c","t","u","r","e">>
    , <<"r","e","t","r","i","e","v","e">>
    , <<"r","e","t","r","y">>
    , <<"r","e","t","u","r","n">>
    , <<"r","e","u","s","e">>
    , <<"r","e","v","e","r","t">>
    , <<"r","e","v","i","s","e">>
    , <<"r","e","w","o","r","k">>
    , <<"r","e","w","r","i","t","e">>
    , <<"r","i","p">>
    , <<"r","o","u","n","d">>
    , <<"r","u","n">>
    , <<"s","a","n","i","t","i","s","e">>
    , <<"s","a","n","i","t","i","z","e">>
    , <<"s","a","v","e">>
    , <<"s","c","h","e","d","u","l","e">>
    , <<"s","e","l","e","c","t">>
    , <<"s","e","n","d">>
    , <<"s","e","p","a","r","a","t","e">>
    , <<"s","e","r","i","a","l","i","s","e">>
    , <<"s","e","r","i","a","l","i","z","e">>
    , <<"s","e","t">>
    , <<"s","e","t","u","p">>
    , <<"s","h","a","r","e">>
    , <<"s","h","o","r","t","e","n">>
    , <<"s","h","o","w">>
    , <<"s","h","r","i","n","k">>
    , <<"s","h","u","t">>
    , <<"s","i","l","e","n","c","e">>
    , <<"s","i","m","p","l","i","f","y">>
    , <<"s","k","i","p">>
    , <<"s","o","r","t">>
    , <<"s","p","e","c","i","f","y">>
    , <<"s","p","e","e","d">>
    , <<"s","p","l","i","t">>
    , <<"s","t","a","n","d","a","r","d","i","s","e">>
    , <<"s","t","a","n","d","a","r","d","i","z","e">>
    , <<"s","t","a","r","t">>
    , <<"s","t","a","t","i","c","i","s","e">>
    , <<"s","t","a","t","i","c","i","z","e">>
    , <<"s","t","o","p">>
    , <<"s","t","o","r","e">>
    , <<"s","t","r","e","a","m","l","i","n","e">>
    , <<"s","t","y","l","e">>
    , <<"s","u","p","p","l","y">>
    , <<"s","u","p","p","o","r","t">>
    , <<"s","u","p","p","r","e","s","s">>
    , <<"s","w","a","p">>
    , <<"s","w","i","t","c","h">>
    , <<"s","y","n","c">>
    , <<"s","y","n","c","h","r","o","n","i","s","e">>
    , <<"s","y","n","c","h","r","o","n","i","z","e">>
    , <<"t","a","k","e">>
    , <<"t","e","a","c","h">>
    , <<"t","e","l","l">>
    , <<"t","e","s","t">>
    , <<"t","i","d","y">>
    , <<"t","i","d","y","u","p">>
    , <<"t","i","g","h","t","e","n">>
    , <<"t","r","a","c","e">>
    , <<"t","r","a","c","k">>
    , <<"t","r","e","a","t">>
    , <<"t","r","i","g","g","e","r">>
    , <<"t","r","i","m">>
    , <<"t","r","y">>
    , <<"t","u","n","e">>
    , <<"t","u","r","n">>
    , <<"t","w","e","a","k">>
    , <<"u","n","b","r","e","a","k">>
    , <<"u","n","c","o","n","d","i","t","i","o","n","a","l","l","y">>
    , <<"u","n","e","x","p","o","r","t">>
    , <<"u","n","i","f","y">>
    , <<"u","n","i","n","l","i","n","e">>
    , <<"u","n","l","o","c","k">>
    , <<"u","n","m","a","p">>
    , <<"u","n","r","e","g","i","s","t","e","r">>
    , <<"u","p","d","a","t","e">>
    , <<"u","p","g","r","a","d","e">>
    , <<"u","s","e">>
    , <<"u","t","i","l","i","s","e">>
    , <<"u","t","i","l","i","z","e">>
    , <<"v","a","l","i","d","a","t","e">>
    , <<"v","e","r","i","f","y">>
    , <<"w","a","i","t">>
    , <<"w","a","k","e">>
    , <<"w","a","r","n">>
    , <<"w","i","r","e">>
    , <<"w","o","r","k">>
    , <<"w","o","r","k","a","r","o","u","n","d">>
    , <<"w","r","a","p">>
    , <<"w","r","i","t","e">>
    , <<"z","e","r","o">>
    }

\* let allowlist = [...ALLOWED_IMPERATIVE_VERBS, ...COMMITLINT_PLUGIN_TENSE_ALLOWLIST]
allowlist == ALLOWED_IMPERATIVE_VERBS \cup COMMITLINT_PLUGIN_TENSE_ALLOWLIST

----------------------------------------------------------------------------
(* ignores: the predicates lint() tries on the raw message before parsing. *)

MergeMarker ==
    <<"M","e","r","g","e"," ","p","u","l","l"," ","r","e","q","u","e","s","t"," ","#">>

\* The predicate with startsWith in place of includes
ignoreMerge_startsWith(m) ==
    Len(m) >= Len(MergeMarker) /\ SubSeq(m, 1, Len(MergeMarker)) = MergeMarker

\* (message) => message.includes("Merge pull request #")
ignoreMerge(m) == includes(m, MergeMarker)

\* v?[\w.-]+$ : an optional "v", then one or more [\w.-] up to the end
bumpVersion(r) ==
    LET word(w) == w /= <<>> /\ \A i \in DOMAIN w : w[i] \in ComponentChars
    IN  \/ word(r)
        \/ r /= <<>> /\ r[1] = "v" /\ word(Tail(r))

\* The pattern with the m flag, /^bump [\w.-]+ to v?[\w.-]+$/m: some line of
\* the trimmed message is a bump line
ignoreBump_anyLine(m) ==
    LET lines == splitLines(trim(m))
    IN  \E n \in DOMAIN lines :
           LET t == lines[n]
           IN  /\ Len(t) >= 5
               /\ SubSeq(t, 1, 5) = <<"b","u","m","p"," ">>
               /\ \E k \in 6..Len(t) :
                     /\ \A i \in 6..k : t[i] \in ComponentChars
                     /\ k + 4 <= Len(t)
                     /\ SubSeq(t, k + 1, k + 4) = <<" ","t","o"," ">>
                     /\ bumpVersion(SubSeq(t, k + 5, Len(t)))

\* (message) => /^bump [\w.-]+ to v?[\w.-]+$/.test(message.trim())
ignoreBump(m) ==
    LET t == trim(m)
    IN  /\ Len(t) >= 5
        /\ SubSeq(t, 1, 5) = <<"b","u","m","p"," ">>
        /\ \E k \in 6..Len(t) :
              /\ \A i \in 6..k : t[i] \in ComponentChars
              /\ k + 4 <= Len(t)
              /\ SubSeq(t, k + 1, k + 4) = <<" ","t","o"," ">>
              /\ bumpVersion(SubSeq(t, k + 5, Len(t)))

\* The list without its second predicate: only pull-request merges exempt
ignores_mergeOnly(m) == ignoreMerge(m)

\* isIgnored: some predicate of the list returns true
ignores(m) == ignoreMerge(m) \/ ignoreBump(m)

----------------------------------------------------------------------------
(* parserPreset: the header of the message, matched against headerPattern  *)
(* and named by headerCorrespondence.                                      *)

\* The parser drops the line breaks around the message and takes the first
\* line as the header, the other lines (line breaks around them dropped) as
\* the body.
trimOffNewlines(s) ==
    LET keep == {i \in DOMAIN s : s[i] /= "\n"}
    IN  IF keep = {} THEN <<>>
        ELSE SubSeq(s, CHOOSE i \in keep : \A j \in keep : i <= j,
                       CHOOSE i \in keep : \A j \in keep : j <= i)

headerOf(m) == splitLines(trimOffNewlines(m))[1]

bodyOf(m) ==
    LET t == trimOffNewlines(m)
        h == headerOf(m)
    IN  trimOffNewlines(SubSeq(t, Len(h) + 1, Len(t)))

\* The pattern with \w+ for the component, /^((?:(\w+):\s(.+))|.+)$/
headerPattern_wordOnly(h) ==
    LET k   == Cardinality({i \in DOMAIN h : \A j \in 1..i : h[j] \in WordChars})
        dot == \A i \in DOMAIN h : h[i] /= "\n"
    IN  IF dot /\ k >= 1 /\ Len(h) >= k + 3 /\ h[k + 1] = ":" /\ h[k + 2] \in Whitespace
        THEN <<h, SubSeq(h, 1, k), SubSeq(h, k + 3, Len(h))>>
        ELSE IF dot /\ Len(h) >= 1 THEN <<h, <<>>, <<>>>>
        ELSE <<<<>>, <<>>, <<>>>>

\* The pattern with (.*) for the description, /^((?:([\w._-]+):\s(.*))|.+)$/
headerPattern_emptyRest(h) ==
    LET k   == Cardinality({i \in DOMAIN h : \A j \in 1..i : h[j] \in ComponentChars})
        dot == \A i \in DOMAIN h : h[i] /= "\n"
    IN  IF dot /\ k >= 1 /\ Len(h) >= k + 2 /\ h[k + 1] = ":" /\ h[k + 2] \in Whitespace
        THEN <<h, SubSeq(h, 1, k), SubSeq(h, k + 3, Len(h))>>
        ELSE IF dot /\ Len(h) >= 1 THEN <<h, <<>>, <<>>>>
        ELSE <<<<>>, <<>>, <<>>>>

\* headerPattern: /^((?:([\w._-]+):\s(.+))|.+)$/
\* The three capture groups of the match, <<>> for a group that took no part
\* (and for all three when the line does not match at all).  The first
\* alternative is tried first; [\w._-]+ is greedy and can give nothing back,
\* since the character after it has to be the colon.
headerPattern(h) ==
    LET k   == Cardinality({i \in DOMAIN h : \A j \in 1..i : h[j] \in ComponentChars})
        dot == \A i \in DOMAIN h : h[i] /= "\n"
    IN  IF /\ dot
           /\ k >= 1
           /\ Len(h) >= k + 3
           /\ h[k + 1] = ":"
           /\ h[k + 2] \in Whitespace
        THEN <<h, SubSeq(h, 1, k), SubSeq(h, k + 3, Len(h))>>
        ELSE IF dot /\ Len(h) >= 1
        THEN <<h, <<>>, <<>>>>
        ELSE <<<<>>, <<>>, <<>>>>

\* The names without the one of the outer group: ['component', 'description', 'subject']
headerCorrespondence_shifted == <<"component", "description", "subject">>

\* headerCorrespondence: ['subject', 'component', 'description']
headerCorrespondence == <<"subject", "component", "description">>

\* The parsed commit: headerParts[name] = match[index + 1] || null
parse(m) ==
    LET h    == headerOf(m)
        g    == headerPattern(h)
        part == [name \in {headerCorrespondence[i] : i \in DOMAIN headerCorrespondence} |->
                    g[CHOOSE i \in DOMAIN headerCorrespondence : headerCorrespondence[i] = name]]
    IN  [raw         |-> m,
         header      |-> h,
         body        |-> bodyOf(m),
         subject     |-> part["subject"],
         component   |-> part["component"],
         description |-> part["description"]]

----------------------------------------------------------------------------
(* The case check behind custom-subject-case: coreRules['subject-case'],   *)
(* with ensure.case and the lodash word splitter it rests on.              *)

upperFirst(s) ==
    IF s = <<>> THEN s ELSE toUpperCase(<<s[1]>>) \o Tail(s)

\* Length of the run of characters of `set` that starts s at index `from`
runLength(s, set, from) ==
    Cardinality({i \in from..Len(s) : \A j \in from..i : s[j] \in set})

\* lodash words(): the runs of letters and digits, split where the case
\* changes ("fooBar" -> foo, Bar; "STRand" -> ST, Rand).
RECURSIVE words(_)
words(s) ==
    IF s = <<>> THEN <<>>
    ELSE LET n == IF s[1] \in DigitSet THEN runLength(s, DigitSet, 1)
                  ELSE IF s[1] \in LowerSet THEN runLength(s, LowerSet, 1)
                  ELSE IF s[1] \in UpperSet
                  THEN IF Len(s) >= 2 /\ s[2] \in LowerSet
                       THEN 1 + runLength(s, LowerSet, 2)
                       ELSE LET u == runLength(s, UpperSet, 1)
                            IN  IF u >= 2 /\ Len(s) > u /\ s[u + 1] \in LowerSet
                                THEN u - 1 ELSE u
                  ELSE 0
         IN  IF n = 0 THEN words(Tail(s))
             ELSE <<SubSeq(s, 1, n)>> \o words(SubSeq(s, n + 1, Len(s)))

\* lodash startCase: the words, each with its first letter raised, joined by spaces
RECURSIVE joinStart(_)
joinStart(ws) ==
    IF ws = <<>> THEN <<>>
    ELSE IF Len(ws) = 1 THEN upperFirst(ws[1])
    ELSE upperFirst(ws[1]) \o <<" ">> \o joinStart(Tail(ws))

startCase(s) == joinStart(words(s))

\* lodash camelCase: the words lower-cased, all but the first capitalised, joined
RECURSIVE joinCamel(_, _)
joinCamel(ws, index) ==
    IF ws = <<>> THEN <<>>
    ELSE (IF index = 0 THEN toLowerCase(ws[1]) ELSE upperFirst(toLowerCase(ws[1])))
         \o joinCamel(Tail(ws), index + 1)

camelCase(s) == joinCamel(words(s), 0)

\* ensure.case: toCase(input, target)
toCase(input, target) ==
    CASE target = "sentence-case" -> upperFirst(input)
      [] target = "start-case"    -> startCase(input)
      [] target = "pascal-case"   -> upperFirst(camelCase(input))
      [] target = "upper-case"    -> toUpperCase(input)
      [] target = "lower-case"    -> toLowerCase(input)

\* ensure.case(raw, target)
ensureCase(raw, target) ==
    LET input       == trim(raw)
        transformed == toCase(input, target)
    IN  \/ transformed = <<>>
        \/ transformed[1] \in DigitSet
        \/ transformed = input

\* coreRules['subject-case'](parsed, when, value)
subjectCase(p, when, value) ==
    IF p.subject = <<>> \/ p.subject[1] \notin (LowerSet \cup UpperSet)
    THEN [valid |-> TRUE, message |-> <<>>]
    ELSE LET result == \E i \in DOMAIN value : ensureCase(p.subject, value[i])
         IN  [valid   |-> IF when = "never" THEN ~result ELSE result,
              message |-> <<"subject must", IF when = "never" THEN "not" ELSE "", "be", value>>]

----------------------------------------------------------------------------
(* Custom rules                                                            *)

\* ensure.notEmpty
notEmpty(value) == Len(value) > 0

\* The rule handing the parsed commit on as it is, as the default subject-case does
customSubjectCaseRule_wholeSubject(p, when, value) == subjectCase(p, when, value)

\* const customSubjectCaseRule = async (parsed, when = 'always', value = [])
customSubjectCaseRule(p, when, value) ==
    LET newParsed == [subject |-> p.description]
    IN  subjectCase(newParsed, when, value)

FormMessage(negated) ==
    <<"subject", IF negated THEN "must" ELSE "may not",
      "be of the form <component>: <description>">>

\* The rule without the negation of 'never'
componentEmpty_notNegated(p, when) ==
    [valid |-> ~notEmpty(p.component), message |-> FormMessage(FALSE)]

\* const componentEmpty = async (parsed, when = 'always')
componentEmpty(p, when) ==
    LET negated == when = "never"
        ne      == notEmpty(p.component)
    IN  [valid   |-> IF negated THEN ne ELSE ~ne,
         message |-> FormMessage(negated)]

\* The rule without the negation of 'never'
descriptionEmpty_notNegated(p, when) ==
    [valid |-> ~notEmpty(p.description), message |-> FormMessage(FALSE)]

\* const descriptionEmpty = async (parsed, when = 'always')
descriptionEmpty(p, when) ==
    LET negated == when = "never"
        ne      == notEmpty(p.description)
    IN  [valid   |-> IF negated THEN ne ELSE ~ne,
         message |-> FormMessage(negated)]

\* const firstWord = description.split(' ')[0] || ''
\* with description = (parsed.description || '').toLowerCase().trim()
firstWordOf(description) == splitFirst(trim(toLowerCase(description)), " ")

\* The rule without its early return for an empty first word
descriptionPresentImperativeTense_noEarlyReturn(p, when) ==
    LET negated   == when = "never"
        firstWord == firstWordOf(p.description)
        allowed   == firstWord \in allowlist
    IN  [valid   |-> IF negated THEN ~allowed ELSE allowed,
         message |-> <<"subject", IF negated THEN "may not" ELSE "must",
                       "use present imperative tense. disallowed word: ",
                       firstWord>>]

\* const descriptionPresentImperativeTense = async (parsed, when = 'always')
descriptionPresentImperativeTense(p, when) ==
    LET negated   == when = "never"
        firstWord == firstWordOf(p.description)
        allowed   == firstWord \in allowlist
    IN  IF firstWord = <<>>
        THEN [valid |-> TRUE, message |-> <<>>]
        ELSE [valid   |-> IF negated THEN ~allowed ELSE allowed,
              message |-> <<"subject", IF negated THEN "may not" ELSE "must",
                            "use present imperative tense. disallowed word: ",
                            firstWord>>]

----------------------------------------------------------------------------
(* The rules of commitlint's own rule set that the configuration enables.  *)

\* header-max-length: ensure.maxLength(parsed.header, value)
headerMaxLength(p, when, value) ==
    [valid   |-> Len(p.header) <= value,
     message |-> <<"header must not be longer than", value, "characters">>]

\* header-trim: no whitespace at either end of the header
headerTrim(p, when) ==
    LET header == p.header
        starts == header /= <<>> /\ header[1] \in Whitespace
        ends   == header /= <<>> /\ header[Len(header)] \in Whitespace
    IN  [valid   |-> ~(starts \/ ends),
         message |-> <<"header", IF starts /\ ends THEN "must not be surrounded by whitespace"
                                 ELSE IF starts THEN "must not start with whitespace"
                                 ELSE "must not end with whitespace">>]

\* subject-empty
subjectEmpty(p, when) ==
    LET negated == when = "never"
        ne      == notEmpty(p.subject)
    IN  [valid   |-> IF negated THEN ne ELSE ~ne,
         message |-> <<"subject", IF negated THEN "may not" ELSE "must", "be empty">>]

\* subject-full-stop: the header may not end with the stop, unless it ends
\* with an ellipsis
subjectFullStop(p, when) ==
    LET input    == p.header
        n        == Len(input)
        negated  == when = "never"
        ellipsis == n >= 3 /\ SubSeq(input, n - 2, n) = <<".", ".", ".">>
        hasStop  == n >= 1 /\ input[n] = "." /\ ~ellipsis
    IN  [valid   |-> IF negated THEN ~hasStop ELSE hasStop,
         message |-> <<"subject", IF negated THEN "may not" ELSE "must", "end with full stop">>]

\* body-max-line-length: ensure.maxLineLength(parsed.body, value)
bodyMaxLineLength(p, when, value) ==
    LET lines == splitLines(p.body)
    IN  [valid   |-> p.body = <<>> \/ \A i \in DOMAIN lines : Len(lines[i]) <= value,
         message |-> <<"body's lines must not be longer than", value, "characters">>]

\* body-leading-blank: the line after the first line of the raw message is empty
bodyLeadingBlank(p, when) ==
    LET lines    == splitLines(p.raw)
        negated  == when = "never"
        succeeds == Len(lines) >= 2 /\ lines[2] = <<>>
    IN  IF p.body = <<>>
        THEN [valid |-> TRUE, message |-> <<>>]
        ELSE [valid   |-> IF negated THEN ~succeeds ELSE succeeds,
              message |-> <<"body", IF negated THEN "may not" ELSE "must",
                            "have leading blank line">>]

----------------------------------------------------------------------------
(* Config                                                                  *)

\* rules: name -> [severity, when, value]
rules ==
    ("header-max-length" :> [level |-> "error", when |-> "always", value |-> 72]) @@
    ("header-trim"       :> [level |-> "error", when |-> "always", value |-> <<>>]) @@
    ("subject-empty"     :> [level |-> "error", when |-> "never",  value |-> <<>>]) @@
    ("component-empty"   :> [level |-> "error", when |-> "never",  value |-> <<>>]) @@
    ("description-empty" :> [level |-> "error", when |-> "never",  value |-> <<>>]) @@
    ("description-present-imperative-tense" :>
                            [level |-> "error", when |-> "always", value |-> <<>>]) @@
    ("custom-subject-case" :>
                            [level |-> "error", when |-> "never",
                             value |-> <<"sentence-case", "start-case",
                                         "pascal-case", "upper-case">>]) @@
    ("subject-full-stop" :> [level |-> "error", when |-> "never",  value |-> <<>>]) @@
    ("body-max-line-length" :> [level |-> "error", when |-> "always", value |-> 72]) @@
    ("body-leading-blank" :> [level |-> "error", when |-> "always", value |-> <<>>])

\* plugins[0].rules and commitlint's own rules: the function behind each name
runRule(name, p, when, value) ==
    CASE name = "header-max-length"    -> headerMaxLength(p, when, value)
      [] name = "header-trim"          -> headerTrim(p, when)
      [] name = "subject-empty"        -> subjectEmpty(p, when)
      [] name = "component-empty"      -> componentEmpty(p, when)
      [] name = "description-empty"    -> descriptionEmpty(p, when)
      [] name = "description-present-imperative-tense"
                                       -> descriptionPresentImperativeTense(p, when)
      [] name = "custom-subject-case"  -> customSubjectCaseRule(p, when, value)
      [] name = "subject-full-stop"    -> subjectFullStop(p, when)
      [] name = "body-max-line-length" -> bodyMaxLineLength(p, when, value)
      [] name = "body-leading-blank"   -> bodyLeadingBlank(p, when)

\* The outcome of every configured rule on a parsed commit
runRules(p) ==
    [name \in DOMAIN rules |-> runRule(name, p, rules[name].when, rules[name].value)]

----------------------------------------------------------------------------
(* The commit messages the linter is given.                                *)

\* Longest message of the exhaustive part, and longest description of the
\* "<component>:<separator><description>" part.
MaxLen == 4
MaxDesc == 4

InputChars == {"b", "e", "B", ":", " ", "\t", ".", "/", "\n"}
DescChars  == {"b", "e", "B", " ", "\t"}
Components == {<<"b">>, <<"B", "-", "e">>}
Separators == {<<" ">>, <<"\t">>}

\* The examples of the configuration's documentation
\*  * shoestore: migrate shoes to new shoe module
GoodShoestore ==
    <<"s","h","o","e","s","t","o","r","e",":"," ","m","i","g","r","a","t",
      "e"," ","s","h","o","e","s"," ","t","o"," ","n","e","w"," ","s","h",
      "o","e"," ","m","o","d","u","l","e">>

\*  * dungeonmaster: improve STR and CON attributes
GoodDungeonmaster ==
    <<"d","u","n","g","e","o","n","m","a","s","t","e","r",":"," ","i","m",
      "p","r","o","v","e"," ","S","T","R"," ","a","n","d"," ","C","O","N",
      " ","a","t","t","r","i","b","u","t","e","s">>

\*  * dog: refill water bowl
GoodDog ==
    <<"d","o","g",":"," ","r","e","f","i","l","l"," ","w","a","t","e","r",
      " ","b","o","w","l">>

\* the body the documentation gives the last Good Example
GoodDogBody ==
    <<"T","h","i","s"," ","c","h","a","n","g","e"," ","i","n","t","r","o",
      "d","u","c","e","s"," ","a"," ","n","e","w"," ","W","a","t","e","r",
      "B","o","w","l",":",":","a","d","d","_","w","a","t","e","r"," ","i",
      "m","p","l","e","m","e","n","t","a","t","i","o","n"," ","t","h","a",
      "t","\n","s","a","t","i","s","f","i","e","s"," ","n","e","w"," ",
      "d","o","g"," ","b","o","w","l"," ","r","e","q","u","i","r","e","m",
      "e","n","t","s",".">>

\*  * migrate shoes to new shoe module.
BadMigrate ==
    <<"m","i","g","r","a","t","e"," ","s","h","o","e","s"," ","t","o"," ",
      "n","e","w"," ","s","h","o","e"," ","m","o","d","u","l","e",".">>

\*  * dungeonmaster: Fixes a bug with STR and CON attributes
BadDungeonmaster ==
    <<"d","u","n","g","e","o","n","m","a","s","t","e","r",":"," ","F","i",
      "x","e","s"," ","a"," ","b","u","g"," ","w","i","t","h"," ","S","T",
      "R"," ","a","n","d"," ","C","O","N"," ","a","t","t","r","i","b","u",
      "t","e","s">>

\* a pull-request merge, as GitHub writes it
MergeExample ==
    <<"M","e","r","g","e"," ","p","u","l","l"," ","r","e","q","u","e","s",
      "t"," ","#","4","2"," ","f","r","o","m"," ","x","/","y">>

\* a version bump
BumpExample ==
    <<"b","u","m","p"," ","f","o","o","-","p","k","g"," ","t","o"," ","v",
      "1",".","2",".","3">>
GoodExamples == {GoodShoestore, GoodDungeonmaster, GoodDog}
BadExamples  == {BadMigrate, BadDungeonmaster}

\* Messages built around the marker and the bump line of the ignore predicates
Pads == {<<>>, <<" ">>, <<"\n">>, <<"B">>, <<".">>, <<"\n", "\n", "b">>}
Cores == {MergeMarker, MergeExample, BumpExample,
          <<"b","u","m","p"," ","b"," ","t","o"," ","e">>,
          <<"b","u","m","p"," ","b"," ","t","o"," ","v">>,
          <<"b","u","m","p"," "," ","t","o"," ","e">>,
          <<"b","u","m","p"," ","b"," ","t","o"," ">>,
          <<"b","u","m","p"," ","b",":","e"," ","t","o"," ","e">>}
LongHeader == [i \in 1..80 |-> "B"] \o <<" ">> \o MergeMarker \o <<"1", ".">>

\* A bump line with a body that mentions a pull-request merge, and a commit
\* with an over-long header that ends with a full stop and mentions the merge
\* in the middle of a line of its body
BumpWithMergeBody == BumpExample \o <<"\n", "\n">> \o MergeExample
MergeInBody ==
    [i \in 1..80 |-> "B"] \o <<".", "\n", "\n", "b", " ">> \o MergeMarker \o <<"1">>

Messages ==
    {m \in Strings(InputChars, MaxLen)
           \cup {c \o <<":">> \o s \o d :
                    c \in Components, s \in Separators, d \in Strings(DescChars, MaxDesc)}
           \cup GoodExamples \cup BadExamples
           \cup {GoodDog \o <<"\n", "\n">> \o GoodDogBody, LongHeader,
                 BumpWithMergeBody, MergeInBody}
           \cup {pre \o core \o post : pre \in Pads, core \in Cores, post \in Pads} :
        trim(m) /= <<>>}

----------------------------------------------------------------------------
(* lint(), for one commit of the range.                                    *)

NoParse ==
    [raw |-> <<>>, header |-> <<>>, body |-> <<>>,
     subject |-> <<>>, component |-> <<>>, description |-> <<>>]

Init ==
    /\ message \in Messages
    /\ pc = "ready"
    /\ parsed = NoParse
    /\ ignored = FALSE
    /\ report = <<>>

\* An ignore predicate matches: lint() returns before it parses, the report
\* is empty and the commit passes.
Ignore ==
    /\ pc = "ready"
    /\ ignores(message)
    /\ ignored' = TRUE
    /\ pc' = "done"
    /\ UNCHANGED <<message, parsed, report>>

\* No ignore predicate matches: the message is parsed.
Parse ==
    /\ pc = "ready"
    /\ ~ignores(message)
    /\ parsed' = parse(message)
    /\ pc' = "parsed"
    /\ UNCHANGED <<message, ignored, report>>

\* Every configured rule runs on the parsed commit.
RunRules ==
    /\ pc = "parsed"
    /\ report' = runRules(parsed)
    /\ pc' = "done"
    /\ UNCHANGED <<message, parsed, ignored>>

Next == Ignore \/ Parse \/ RunRules

Spec == Init /\ [][Next]_vars

\* The rules that failed; every configured rule has severity error
errors == {name \in DOMAIN report : ~report[name].valid}

\* The outcome of lint(): valid when no rule of severity error failed
valid == pc = "done" /\ errors = {}

----------------------------------------------------------------------------
(* Properties                                                              *)

wasParsed == pc \in {"parsed", "done"} /\ ~ignored

TenseRule == "description-present-imperative-tense"

\* The header reads <token>: <rest>, the token being its first k characters:
\* a token without whitespace, a colon, one space, a non-empty rest.
HasForm(h, k) ==
    /\ Len(h) >= k + 3
    /\ \A i \in 1..k : h[i] \notin Whitespace
    /\ h[k + 1] = ":"
    /\ h[k + 2] = " "

\* C1, as stated: for every header "<token>: <rest>" whose token holds no
\* whitespace and whose rest is not empty, the parse gives component = token
\* and description = rest.
C1_Original ==
    wasParsed =>
        \A k \in 1..Len(parsed.header) :
            HasForm(parsed.header, k) =>
                /\ parsed.component = SubSeq(parsed.header, 1, k)
                /\ parsed.description = SubSeq(parsed.header, k + 3, Len(parsed.header))

\* C1, amended: for every header "<token>: <rest>" whose token is a non-empty
\* run of letters, digits, underscores, dots and hyphens and whose rest is not
\* empty, the parse gives component = token and description = rest.
C1_Amended ==
    wasParsed =>
        \A k \in 1..Len(parsed.header) :
            (/\ HasForm(parsed.header, k)
             /\ \A i \in 1..k :
                   parsed.header[i] \in LowerSet \cup UpperSet \cup DigitSet \cup {"_", ".", "-"})
            => /\ parsed.component = SubSeq(parsed.header, 1, k)
               /\ parsed.description = SubSeq(parsed.header, k + 3, Len(parsed.header))

\* A header "B-e: be" was parsed into its token and its rest.
C1_Witness ==
    /\ wasParsed
    /\ parsed.header = <<"B", "-", "e", ":", " ", "b", "e">>
    /\ parsed.component = <<"B", "-", "e">>
    /\ parsed.description = <<"b", "e">>

NoColon(h) == \A i \in DOMAIN h : h[i] /= ":"

\* C2, as stated: for every header without a colon, the parse gives an empty
\* component and a description equal to the whole header line.
C2_Original ==
    (wasParsed /\ NoColon(parsed.header)) =>
        /\ parsed.component = <<>>
        /\ parsed.description = parsed.header

\* C2, amended: for every header without a colon, the parse gives an empty
\* component and an empty description; the whole header line, unchanged, is
\* the subject.
C2_Amended ==
    (wasParsed /\ NoColon(parsed.header)) =>
        /\ parsed.component = <<>>
        /\ parsed.description = <<>>
        /\ parsed.subject = parsed.header

\* The header "be b", which has no colon, was parsed.
C2_Witness ==
    /\ wasParsed
    /\ parsed.header = <<"b", "e", " ", "b">>
    /\ parsed.subject = <<"b", "e", " ", "b">>
    /\ parsed.description = <<>>

\* The first whitespace-delimited token of a text
FirstToken(d) ==
    LET t  == trim(d)
        ws == {i \in DOMAIN t : t[i] \in Whitespace}
    IN  IF ws = {} THEN t
        ELSE SubSeq(t, 1, (CHOOSE i \in ws : \A j \in ws : i <= j) - 1)

\* C3: for every parsed header whose description holds a word, the tense rule
\* passes exactly when the first whitespace-delimited token of the
\* description, lower-cased, is in the allowlist, and when it fails its
\* message names that token.
C3_Claim ==
    (pc = "done" /\ ~ignored /\ trim(parsed.description) /= <<>>) =>
        LET token == toLowerCase(FirstToken(parsed.description))
        IN  /\ report[TenseRule].valid <=> token \in allowlist
            /\ ~report[TenseRule].valid => report[TenseRule].message[4] = token

\* C4: a message that one of the ignore predicates matches (it contains
\* "Merge pull request #", or it is a bump line) gets a report without any
\* rule result and passes.
C4_IgnoredPass ==
    (pc = "done" /\ (includes(message, MergeMarker) \/ ignoreBump(message))) =>
        /\ ignored
        /\ report = <<>>
        /\ errors = {}
        /\ valid

\* A merge message whose header is over-long, has no component and ends with
\* a full stop was exempted.
C4_Witness ==
    /\ pc = "done"
    /\ message = LongHeader
    /\ Len(headerOf(message)) > 72
    /\ ignored
    /\ errors = {}

\* C5: each Good Example of the documentation passes every configured rule.
C5_Claim ==
    (pc = "done" /\ message \in GoodExamples) => (~ignored /\ errors = {})

\* C6, as stated: the two rules are independent, that is, some header parses
\* to a component without a description and some header parses to a
\* description without a component, each failing exactly one of
\* component-empty and description-empty.
C6_Original ==
    (pc = "done" /\ ~ignored) =>
        /\ \E m \in Messages :
              LET r == runRules(parse(m))
              IN  /\ parse(m).component /= <<>> /\ parse(m).description = <<>>
                  /\ r["component-empty"].valid /\ ~r["description-empty"].valid
        /\ \E m \in Messages :
              LET r == runRules(parse(m))
              IN  /\ parse(m).component = <<>> /\ parse(m).description /= <<>>
                  /\ ~r["component-empty"].valid /\ r["description-empty"].valid

\* C6, amended: component-empty and description-empty are two rules with a
\* result each, but no header fails exactly one of them: the parse gives a
\* component exactly when it gives a description, so a header fails both
\* rules or neither.
C6_Amended ==
    (pc = "done" /\ ~ignored) =>
        /\ parsed.component = <<>> <=> parsed.description = <<>>
        /\ report["component-empty"].valid <=> report["description-empty"].valid
        /\ report["component-empty"].valid <=> parsed.component /= <<>>

\* "b: ", a component with nothing after it, failed both rules.
C6_Witness ==
    /\ pc = "done"
    /\ parsed.header = <<"b", ":", " ">>
    /\ ~report["component-empty"].valid
    /\ ~report["description-empty"].valid

\* C7: whenever the parse gives a component and a description, the component,
\* a colon, one space and the description make up the raw header.
C7_Claim ==
    (wasParsed /\ parsed.component /= <<>> /\ parsed.description /= <<>>) =>
        parsed.component \o <<":", " ">> \o parsed.description = parsed.header

SameDescription(d) ==
    IF d = <<>>
    THEN {parse(m) : m \in {<<"B">>, <<"b", "e", ".">>, <<"B", ":">>, BadMigrate}}
    ELSE {parse(c \o <<":">> \o s \o d \o body) :
             c \in Components \cup {<<"D", "o", "g">>},
             s \in Separators,
             body \in {<<>>, <<"\n", "\n", "B", "e">>}}

\* C9: the result of custom-subject-case is the same for every parsed commit
\* with the same description, whatever its component, subject, raw header and
\* body.
C9_CaseDependsOnDescription ==
    (pc = "done" /\ ~ignored) =>
        \A p \in SameDescription(parsed.description) :
            /\ p.description = parsed.description
            /\ customSubjectCaseRule(p, rules["custom-subject-case"].when,
                                        rules["custom-subject-case"].value)
                   = report["custom-subject-case"]

\* A header with a capitalised component and a lower-case description passed
\* the case rule.
C9_Witness ==
    /\ pc = "done"
    /\ parsed.component = <<"B", "-", "e">>
    /\ parsed.description = <<"b", "e", " ", "B">>
    /\ report["custom-subject-case"].valid

\* C10: the Bad Examples fail the rules the documentation names for them:
\* the first component-empty and subject-full-stop, the second
\* custom-subject-case and the tense rule, whose message names "fixes", a word
\* that is not in the allowlist.
C10_BadExamplesFail ==
    /\ (pc = "done" /\ message = BadMigrate) =>
          /\ ~ignored
          /\ {"component-empty", "subject-full-stop"} \subseteq errors
    /\ (pc = "done" /\ message = BadDungeonmaster) =>
          /\ ~ignored
          /\ {"custom-subject-case", TenseRule} \subseteq errors
          /\ report[TenseRule].message[4] = <<"f", "i", "x", "e", "s">>
          /\ <<"f", "i", "x", "e", "s">> \notin allowlist

\* The second Bad Example was linted and failed exactly its two rules.
C10_Witness ==
    /\ pc = "done"
    /\ message = BadDungeonmaster
    /\ errors = {"custom-subject-case", TenseRule}

\* C11, as stated: for component-empty, description-empty and the tense rule,
\* and for every parsed header, the verdict with when = 'never' is the
\* negation of the verdict with when = 'always'.
C11_Original ==
    (pc = "done" /\ ~ignored) =>
        /\ componentEmpty(parsed, "never").valid = ~componentEmpty(parsed, "always").valid
        /\ descriptionEmpty(parsed, "never").valid = ~descriptionEmpty(parsed, "always").valid
        /\ descriptionPresentImperativeTense(parsed, "never").valid
              = ~descriptionPresentImperativeTense(parsed, "always").valid

\* C11, amended: for component-empty and description-empty, and for every
\* parsed header, the verdict with when = 'never' is the negation of the
\* verdict with when = 'always'; for the tense rule this holds for every
\* parsed header whose description holds a word, while a description that is
\* absent, empty or only whitespace passes with 'always' and with 'never'.
\* The report holds the verdict of the configured when.
C11_Amended ==
    (pc = "done" /\ ~ignored) =>
        /\ componentEmpty(parsed, "never").valid = ~componentEmpty(parsed, "always").valid
        /\ report["component-empty"].valid = componentEmpty(parsed, "never").valid
        /\ descriptionEmpty(parsed, "never").valid = ~descriptionEmpty(parsed, "always").valid
        /\ report["description-empty"].valid = descriptionEmpty(parsed, "never").valid
        /\ report[TenseRule].valid = descriptionPresentImperativeTense(parsed, "always").valid
        /\ IF trim(parsed.description) /= <<>>
           THEN descriptionPresentImperativeTense(parsed, "never").valid
                   = ~descriptionPresentImperativeTense(parsed, "always").valid
           ELSE /\ descriptionPresentImperativeTense(parsed, "never").valid
                /\ descriptionPresentImperativeTense(parsed, "always").valid

\* "b: bb" was linted: its word is not allowed, so the tense rule failed as
\* configured and passes with 'never'; the two other rules passed as
\* configured and fail with 'always'.
C11_Witness ==
    /\ pc = "done"
    /\ parsed.component = <<"b">>
    /\ parsed.description = <<"b", "b">>
    /\ ~report[TenseRule].valid
    /\ descriptionPresentImperativeTense(parsed, "never").valid
    /\ report["description-empty"].valid
    /\ ~descriptionEmpty(parsed, "always").valid

SingleLine(t) == \A i \in DOMAIN t : t[i] /= "\n"

C13_MergeAnywhere ==
    (pc = "done" /\ (\/ includes(headerOf(message), MergeMarker)
                     \/ includes(bodyOf(message), MergeMarker))) =>
        /\ ignored
        /\ DOMAIN report = {}
        /\ valid

\* A commit whose header has more than 72 characters, no component and a
\* full stop at its end, and whose body mentions the merge, was exempted.
C13_Witness ==
    /\ pc = "done"
    /\ message = MergeInBody
    /\ Len(headerOf(message)) > 72
    /\ headerOf(message)[Len(headerOf(message))] = "."
    /\ ~includes(headerOf(message), MergeMarker)
    /\ ignored
    /\ valid

=============================================================================
